---- MODULE Spec2Model ----
(***************************************************************************)
(* fortunebot (cmd/fortunebot/main.go): the cache file, the log file and   *)
(* the processes that read and write them.  A process is one run of main:  *)
(* either started by the user with some flags, or started by startPrefetch *)
(* as a detached --prefetch-worker child.  Every step of a process is one  *)
(* operation on the shared files (or the network call), so that runs       *)
(* interleave as the operating system lets them.                           *)
(*                                                                         *)
(* Text is a sequence of tokens: "E" is the literal "[fortunebot]", "s" is *)
(* one whitespace character, "R" is the robot marker that generateFortune  *)
(* puts in front of a fortune, any other token is ordinary text.           *)
(***************************************************************************)
EXTENDS Integers, Sequences, FiniteSets, TLC

VARIABLES cache, log, now, proc, runs, env, cfgFile, dotEnv

vars == <<cache, log, now, proc, runs, env, cfgFile, dotEnv>>

----------------------------------------------------------------------------
(* Bounds of the model *)

MaxProcs == 3
MaxRuns == 2
MaxTime == 1
MaxTTL == 1

Procs == 1..MaxProcs

----------------------------------------------------------------------------
(* Constants of the program *)

defaultPrompt == "defaultPrompt"
defaultModel == "gpt-4o-mini"
cacheTTLDefault == 60

(* The cache file: absent, not parseable as JSON (this includes the empty  *)
(* file that a truncating open leaves behind), or one fortuneCache record. *)
fortuneCache(f, ts) == [Fortune |-> f, Timestamp |-> ts]

Absent == [state |-> "absent", rec |-> fortuneCache(<<>>, 0)]
Garbage == [state |-> "garbage", rec |-> fortuneCache(<<>>, 0)]
CacheFile(f, ts) == [state |-> "json", rec |-> fortuneCache(f, ts)]

NoText == <<"none">>
NoCode == 0 - 1

----------------------------------------------------------------------------
(* Text helpers *)

IsSpace(t) == t \in {"s", "n", "t"}

RECURSIVE TrimLeft(_)
TrimLeft(s) ==
    IF s = <<>> THEN <<>>
    ELSE IF IsSpace(Head(s)) THEN TrimLeft(Tail(s)) ELSE s

RECURSIVE TrimRight(_)
TrimRight(s) ==
    IF s = <<>> THEN <<>>
    ELSE IF IsSpace(s[Len(s)]) THEN TrimRight(SubSeq(s, 1, Len(s) - 1)) ELSE s

TrimSpace(s) == TrimRight(TrimLeft(s))

HasPrefix(s, t) == s # <<>> /\ Head(s) = t

isErrorFortune(s) == HasPrefix(TrimSpace(s), "E")

(* Configuration values are short strings; Blank is strings.TrimSpace(s) = "" *)
Blank(s) == s \in {"", " "}

----------------------------------------------------------------------------
(* Config Resolver *)

config(k, p, m) == [APIKey |-> k, DefaultPrompt |-> p, Model |-> m]

(* The config file: absent or unreadable, not parseable, or a JSON object *)
ConfigFile(st, k, p, m) == [state |-> st, c |-> config(k, p, m)]

loadConfig(file) ==
    IF file.state # "json"
    THEN config("", defaultPrompt, defaultModel)
    ELSE config(file.c.APIKey,
                IF file.c.DefaultPrompt = "" THEN defaultPrompt ELSE file.c.DefaultPrompt,
                IF file.c.Model = "" THEN defaultModel ELSE file.c.Model)

(* Variant: OPENAI_API_KEY is looked at before FORTUNEBOT_API_KEY *)
resolveAPIKeyAlternateFirst(cli, cfg, e) ==
    IF ~Blank(cli) THEN <<cli, "--api-key flag">>
    ELSE IF e.OPENAI_API_KEY # "" THEN <<e.OPENAI_API_KEY, "env OPENAI_API_KEY">>
    ELSE IF e.FORTUNEBOT_API_KEY # "" THEN <<e.FORTUNEBOT_API_KEY, "env FORTUNEBOT_API_KEY">>
    ELSE IF ~Blank(cfg.APIKey) THEN <<cfg.APIKey, "~/.config/fortunebot/config.json">>
    ELSE <<"", "none found">>

resolveAPIKeyWithSource(cli, cfg, e) ==
    IF ~Blank(cli) THEN <<cli, "--api-key flag">>
    ELSE IF e.FORTUNEBOT_API_KEY # "" THEN <<e.FORTUNEBOT_API_KEY, "env FORTUNEBOT_API_KEY">>
    ELSE IF e.OPENAI_API_KEY # "" THEN <<e.OPENAI_API_KEY, "env OPENAI_API_KEY">>
    ELSE IF ~Blank(cfg.APIKey) THEN <<cfg.APIKey, "~/.config/fortunebot/config.json">>
    ELSE <<"", "none found">>

resolveModelWithSource(cli, cfg, e) ==
    IF ~Blank(cli) THEN <<cli, "--model flag">>
    ELSE IF e.FORTUNEBOT_MODEL # "" THEN <<e.FORTUNEBOT_MODEL, "env FORTUNEBOT_MODEL">>
    ELSE IF e.OPENAI_MODEL # "" THEN <<e.OPENAI_MODEL, "env OPENAI_MODEL">>
    ELSE IF ~Blank(cfg.Model) THEN <<cfg.Model, "~/.config/fortunebot/config.json">>
    ELSE <<defaultModel, "built-in default">>

resolvePromptWithSource(cli, cfg, e) ==
    IF ~Blank(cli) THEN <<cli, "--prompt flag">>
    ELSE IF e.FORTUNEBOT_PROMPT # "" THEN <<e.FORTUNEBOT_PROMPT, "env FORTUNEBOT_PROMPT">>
    ELSE IF ~Blank(cfg.DefaultPrompt) THEN <<cfg.DefaultPrompt, "~/.config/fortunebot/config.json">>
    ELSE <<defaultPrompt, "built-in default">>

Resolved(flags, file, e) ==
    LET cfg == loadConfig(file) IN
    [prompt |-> resolvePromptWithSource(flags.prompt, cfg, e)[1],
     apiKey |-> resolveAPIKeyWithSource(flags.apiKey, cfg, e)[1],
     model  |-> resolveModelWithSource(flags.model, cfg, e)[1]]

(* The provenance main prints in verbose mode *)
Sources(flags, file, e) ==
    LET cfg == loadConfig(file) IN
    [prompt |-> resolvePromptWithSource(flags.prompt, cfg, e)[2],
     apiKey |-> resolveAPIKeyWithSource(flags.apiKey, cfg, e)[2],
     model  |-> resolveModelWithSource(flags.model, cfg, e)[2]]

NoConfig == [prompt |-> "", apiKey |-> "", model |-> ""]

----------------------------------------------------------------------------
(* Command line *)

(* The flags of one invocation.  verbose is the local of main computed     *)
(* from --verbose and --quiet.                                             *)
Flags(w, sl, lr, cc, nc, np, vb, ttl, pr, key, mdl) ==
    [prefetchWorker |-> w, showLog |-> sl, logRandom |-> lr, clearCache |-> cc,
     noCache |-> nc, noPrefetch |-> np, verbose |-> vb, cacheTTL |-> ttl,
     prompt |-> pr, apiKey |-> key, model |-> mdl]

NoFlags == Flags(FALSE, FALSE, FALSE, FALSE, FALSE, FALSE, FALSE, cacheTTLDefault, "", "", "")

(* --prompt, --api-key and --model as the user may give them *)
CliOverrides ==
    { [prompt |-> "", apiKey |-> "", model |-> ""],
      [prompt |-> "p1", apiKey |-> "k1", model |-> "m1"] }

(* --cache-ttl and --no-cache as the user may give them: --no-cache makes  *)
(* the ttl irrelevant                                                      *)
CacheOptions ==
    { [noCache |-> FALSE, cacheTTL |-> ttl] : ttl \in 0..MaxTTL }
    \cup { [noCache |-> TRUE, cacheTTL |-> MaxTTL] }

(* Command lines the user may type: every combination of the flags of the *)
(* normal mode; the worker mode with every combination of the other mode   *)
(* flags and the other flags either all left out or all given; show-log    *)
(* and log-random likewise.                                                *)
Invocations ==
    { Flags(FALSE, FALSE, FALSE, cc, co.noCache, np, vb, co.cacheTTL,
            o.prompt, o.apiKey, o.model) :
        cc \in BOOLEAN, np \in BOOLEAN, vb \in BOOLEAN,
        co \in CacheOptions, o \in CliOverrides }
    \cup
    { Flags(TRUE, sl, lr, x, x, x, x, MaxTTL, o.prompt, o.apiKey, o.model) :
        sl \in BOOLEAN, lr \in BOOLEAN, x \in BOOLEAN, o \in CliOverrides }
    \cup
    { Flags(FALSE, m.showLog, m.logRandom, x, x, x, x, MaxTTL, "", "", "") :
        m \in { [showLog |-> TRUE, logRandom |-> FALSE],
                [showLog |-> TRUE, logRandom |-> TRUE],
                [showLog |-> FALSE, logRandom |-> TRUE] },
        x \in BOOLEAN }

(* Environment variables of the user's shell, and the config file *)
Env(fk, ok, fm, om, fp) ==
    [FORTUNEBOT_API_KEY |-> fk, OPENAI_API_KEY |-> ok, FORTUNEBOT_MODEL |-> fm,
     OPENAI_MODEL |-> om, FORTUNEBOT_PROMPT |-> fp]

NoEnv == Env("", "", "", "", "")

Environments == { NoEnv }

(* A fortunebot.env file: absent, or the KEY=VAL lines it holds; Unset is  *)
(* a key the file has no line for.                                         *)
Unset == "-"

EnvFile(st, fk, ok, fm, om, fp) == [state |-> st, set |-> Env(fk, ok, fm, om, fp)]

NoEnvFile == EnvFile("absent", Unset, Unset, Unset, Unset, Unset)

(* applyEnvFile: os.Setenv for every line of the file *)
applyEnvFile(e, file) ==
    [k \in DOMAIN e |-> IF file.set[k] = Unset THEN e[k] ELSE file.set[k]]

(* The fortunebot.env files on the disk, in the directory of the           *)
(* executable ("exe"), in another directory the user works in ("work") and *)
(* next to the config file ("conf"), and the directory the user is in.     *)
DotEnv(cwd, exe, work, conf) == [cwd |-> cwd, exe |-> exe, work |-> work, conf |-> conf]

(* The candidate paths of loadDotEnv in order, FORTUNEBOT_ENV not set: a   *)
(* path already seen is not added again                                    *)
EnvPaths(cwd) ==
    IF cwd = "exe" THEN <<"exe", "conf">> ELSE <<"exe", cwd, "conf">>

(* loadDotEnv: the first candidate that opens is applied, and only that    *)
RECURSIVE FirstEnvFile(_, _)
FirstEnvFile(paths, d) ==
    IF paths = <<>> THEN NoEnvFile
    ELSE IF d[Head(paths)].state = "file" THEN d[Head(paths)]
    ELSE FirstEnvFile(Tail(paths), d)

loadDotEnv(e, cwd, d) == applyEnvFile(e, FirstEnvFile(EnvPaths(cwd), d))

DotEnvs == { DotEnv("exe", NoEnvFile, NoEnvFile, NoEnvFile) }

ConfigFiles == { ConfigFile("absent", "", "", "") }

(* What the remote endpoint answers: ok with the text of the first choice, *)
(* or not ok for a request that yields no 2xx JSON body (network error,    *)
(* timeout, status >= 300, undecodable body).                              *)
Response(ok, text) == [ok |-> ok, text |-> text]

Responses ==
    { Response(FALSE, <<>>), Response(TRUE, <<"s">>),
      Response(TRUE, <<"a">>), Response(TRUE, <<"s", "E", "a", "s">>) }

(* Cache files a run may find when the tool is first used *)
InitCaches ==
    { Absent, Garbage, CacheFile(<<"R", "b">>, 0), CacheFile(<<"s", "E", "b">>, 0) }

----------------------------------------------------------------------------
(* Cache Store, Log Store, Generation Client: the functions *)

(* Variant: --no-cache is not looked at *)
cachingTtlOnly(f) == f.cacheTTL > 0

caching(f) == ~f.noCache /\ f.cacheTTL > 0

(* A result with an error: the value is the zero value *)
Miss == [ok |-> FALSE, c |-> fortuneCache(<<>>, 0)]
Hit(c) == [ok |-> TRUE, c |-> c]

(* Variant: the text of the entry is not tested for the error tag *)
loadCacheUnchecked(file, readOk) ==
    IF ~readOk \/ file.state = "absent" THEN Miss
    ELSE IF file.state # "json" THEN Miss
    ELSE Hit(file.rec)

(* readOk: os.ReadFile succeeded *)
loadCache(file, readOk) ==
    IF ~readOk \/ file.state = "absent" THEN Miss
    ELSE IF file.state # "json" THEN Miss
    ELSE IF isErrorFortune(file.rec.Fortune) THEN Miss
    ELSE Hit(file.rec)

cacheIsFresh(c, ttl, t) == t - c.Timestamp < ttl

(* Variant: error text is logged like any other *)
logFortuneUnfiltered(lg, f, t, wrOk) ==
    IF wrOk THEN Append(lg, [ts |-> t, text |-> f]) ELSE lg

(* The log after logFortune(f) at time t; wrOk: open and write succeeded *)
logFortune(lg, f, t, wrOk) ==
    IF isErrorFortune(f) THEN lg
    ELSE IF wrOk THEN Append(lg, [ts |-> t, text |-> f])
    ELSE lg

(* Variant: the timestamp is left at its zero value *)
saveCachePayloadNoTime(f, t, mkOk) ==
    IF isErrorFortune(f) THEN Miss
    ELSE IF ~mkOk THEN Miss
    ELSE Hit(fortuneCache(f, 0))

(* The payload saveCache(f) writes at time t, or Miss when it returns      *)
(* before os.WriteFile (error text, or MkdirAll failed).                   *)
saveCachePayload(f, t, mkOk) ==
    IF isErrorFortune(f) THEN Miss
    ELSE IF ~mkOk THEN Miss
    ELSE Hit(fortuneCache(f, t))

(* generateFortune: [ok, fortune] from the key and the endpoint's answer *)
generateFortune(apiKey, resp) ==
    IF apiKey = "" THEN [ok |-> FALSE, fortune |-> NoText, net |-> FALSE]
    ELSE IF ~resp.ok THEN [ok |-> FALSE, fortune |-> NoText, net |-> TRUE]
    ELSE IF TrimSpace(resp.text) = <<>> THEN [ok |-> FALSE, fortune |-> NoText, net |-> TRUE]
    ELSE [ok |-> TRUE, fortune |-> <<"R">> \o TrimSpace(resp.text), net |-> TRUE]

----------------------------------------------------------------------------
(* Processes *)

(* One run of main.  pc is the next file or network operation; the other   *)
(* fields are the locals of main (flags, conf, fortune, payload) and a     *)
(* record of what the run did: out is the fortune it printed, msg its      *)
(* verbose line about the cache, exit its status, hit whether loadCache    *)
(* returned an entry, nLoad, nGen and nSpawn the calls of loadCache,       *)
(* generateFortune and os.StartProcess that succeeded in starting a child, *)
(* wroteLog, wroteCache and saved whether it appended to the log, opened   *)
(* the cache for writing and completed the write, logFail and saveFail     *)
(* whether logFortune and saveCache hit an I/O error, after (of a child)   *)
(* whether its parent had served the cache ("hit") or fetched ("fetch"),   *)
(* environ and cwd the environment and working directory of the process,   *)
(* src the provenance main resolved, pconf (of a child) the values its     *)
(* parent resolved, prevOk (during saveCache) whether the cache file that  *)
(* os.WriteFile truncated held an entry loadCache accepts, net whether     *)
(* generateFortune sent a request to the service; in log-random mode       *)
(* logFail is whether the log could not be read; cleared is whether        *)
(* clearCache left no cache file behind.                                   *)
IdleProc ==
    [pc |-> "idle", kind |-> "none", parent |-> 0, child |-> 0, flags |-> NoFlags,
     conf |-> NoConfig, fortune |-> NoText, fetched |-> FALSE, payload |-> Miss,
     out |-> NoText, msg |-> "none", exit |-> NoCode, hit |-> FALSE,
     nLoad |-> 0, nGen |-> 0, nSpawn |-> 0,
     wroteLog |-> FALSE, wroteCache |-> FALSE, saved |-> FALSE,
     logFail |-> FALSE, saveFail |-> FALSE, after |-> "none",
     environ |-> NoEnv, cwd |-> "none", src |-> NoConfig, pconf |-> NoConfig,
     prevOk |-> FALSE, net |-> FALSE, cleared |-> FALSE]

Started(kind, parent, f) ==
    [IdleProc EXCEPT !.kind = kind, !.parent = parent, !.flags = f]

Live(p) == proc[p].pc \notin {"idle", "done"}

(* The process table hands out the lowest free slot *)
FreeSlot(p) == proc[p].pc = "idle" /\ \A q \in 1..(p - 1) : proc[q].pc # "idle"

(* An exit status is collected as soon as the process has exited *)
NoZombie == \A q \in Procs : proc[q].pc # "done"

(* What time.Now().Unix() may return: the clock never runs backwards *)
Clock == now..MaxTime

Exited(r, code) == [r EXCEPT !.pc = "done", !.exit = code]

Verbose(r, m) == IF r.flags.verbose THEN m ELSE "none"

(* Variant: the worker falls through to the prefetch of the normal mode *)
AfterStoreIgnoresWorker(r) ==
    IF ~r.flags.noPrefetch
    THEN [r EXCEPT !.pc = "spawn"]
    ELSE Exited(r, 0)

(* main after the fortune is printed and stored: startPrefetch unless      *)
(* --no-prefetch, then return; runPrefetchWorker returns 0                 *)
AfterStore(r) ==
    IF ~r.flags.prefetchWorker /\ ~r.flags.noPrefetch
    THEN [r EXCEPT !.pc = "spawn"]
    ELSE Exited(r, 0)

(* main below the flags: the lookup when caching, else the fetch *)
LookupOrFetch(r) ==
    IF caching(r.flags) THEN [r EXCEPT !.pc = "lookup"]
    ELSE [r EXCEPT !.pc = "fetch", !.msg = Verbose(r, "disabled")]

(* Variant: --clear-cache is honoured before the mode flags are looked at *)
MainClearFirst(r) ==
    LET f == r.flags
        e == loadDotEnv(r.environ, r.cwd, dotEnv)
        c == Resolved(f, cfgFile, e)
        s == Sources(f, cfgFile, e)
        r1 == [r EXCEPT !.environ = e]
    IN  IF f.prefetchWorker THEN [r1 EXCEPT !.pc = "fetch", !.conf = c]
        ELSE IF f.clearCache THEN [r1 EXCEPT !.pc = "clear", !.conf = c, !.src = s]
        ELSE IF f.showLog THEN [r1 EXCEPT !.pc = "showlog"]
        ELSE IF f.logRandom THEN [r1 EXCEPT !.pc = "logrand"]
        ELSE LookupOrFetch([r1 EXCEPT !.conf = c, !.src = s])

(* main up to its first file or network operation: the mode is selected,  *)
(* worker first, then show-log, then log-random, then normal               *)
Main(r) ==
    LET f == r.flags
        e == loadDotEnv(r.environ, r.cwd, dotEnv)
        c == Resolved(f, cfgFile, e)
        s == Sources(f, cfgFile, e)
        r1 == [r EXCEPT !.environ = e]
    IN  IF f.prefetchWorker THEN [r1 EXCEPT !.pc = "fetch", !.conf = c]
        ELSE IF f.showLog THEN [r1 EXCEPT !.pc = "showlog"]
        ELSE IF f.logRandom THEN [r1 EXCEPT !.pc = "logrand"]
        ELSE IF f.clearCache THEN [r1 EXCEPT !.pc = "clear", !.conf = c, !.src = s]
        ELSE LookupOrFetch([r1 EXCEPT !.conf = c, !.src = s])

(* Variant: a stale entry is not served, the fortune is fetched at once *)
OnHitStaleRefetch(r, c, t) ==
    IF cacheIsFresh(c, r.flags.cacheTTL, t)
    THEN AfterStore([r EXCEPT !.hit = TRUE, !.out = c.Fortune, !.msg = Verbose(r, "fresh")])
    ELSE [r EXCEPT !.hit = TRUE, !.pc = "fetch", !.msg = Verbose(r, "stale")]

(* main on a cache hit: the cached fortune is printed, fresh or stale *)
OnHit(r, c, t) ==
    IF cacheIsFresh(c, r.flags.cacheTTL, t)
    THEN AfterStore([r EXCEPT !.hit = TRUE, !.out = c.Fortune, !.msg = Verbose(r, "fresh")])
    ELSE AfterStore([r EXCEPT !.hit = TRUE, !.out = c.Fortune, !.msg = Verbose(r, "stale")])

(* Variant: the error of generateFortune is not checked *)
OnFetchContinue(r, g) ==
    [r EXCEPT !.pc = "log", !.fortune = g.fortune, !.fetched = g.ok]

(* Variant: a failed fetch exits with status 0 *)
OnFetchExitZero(r, g) ==
    IF g.ok THEN [r EXCEPT !.pc = "log", !.fortune = g.fortune, !.fetched = TRUE]
    ELSE Exited(r, 0)

(* Variant: the fortune is saved without being logged first *)
OnFetchSaveUnlogged(r, g) ==
    IF g.ok THEN [r EXCEPT !.pc = "save", !.fortune = g.fortune, !.fetched = TRUE]
    ELSE Exited(r, 1)

(* main and runPrefetchWorker on the result g of generateFortune *)
OnFetch(r, g) ==
    IF g.ok THEN [r EXCEPT !.pc = "log", !.fortune = g.fortune, !.fetched = TRUE]
    ELSE Exited(r, 1)

(* Variant: main saves the fortune whether caching or not *)
AfterLogAlwaysSave(r) ==
    IF r.flags.prefetchWorker THEN [r EXCEPT !.pc = "save"]
    ELSE [r EXCEPT !.pc = "save", !.out = r.fortune]

(* Variant: the worker returns without saveCache *)
AfterLogWorkerNoSave(r) ==
    IF r.flags.prefetchWorker THEN Exited(r, 0)
    ELSE IF caching(r.flags) THEN [r EXCEPT !.pc = "save", !.out = r.fortune]
    ELSE Exited([r EXCEPT !.out = r.fortune], 0)

(* After logFortune: main prints the fortune and saves it when caching;    *)
(* runPrefetchWorker saves it                                              *)
AfterLog(r) ==
    IF r.flags.prefetchWorker THEN [r EXCEPT !.pc = "save"]
    ELSE IF caching(r.flags) THEN [r EXCEPT !.pc = "save", !.out = r.fortune]
    ELSE Exited([r EXCEPT !.out = r.fortune], 0)

Init ==
    /\ cache \in InitCaches
    /\ log = <<>>
    /\ now = 0
    /\ proc = [p \in Procs |-> IdleProc]
    /\ runs = 0
    /\ env \in Environments
    /\ cfgFile \in ConfigFiles
    /\ dotEnv \in DotEnvs

(* The user runs the program; one command at a time in the foreground *)
Run(p, commands) ==
    /\ NoZombie
    /\ FreeSlot(p)
    /\ runs < MaxRuns
    /\ \A q \in Procs : proc[q].kind = "user" => ~Live(q)
    /\ \E f \in commands :
          proc' = [proc EXCEPT ![p] =
              Main([Started("user", 0, f) EXCEPT !.environ = env, !.cwd = dotEnv.cwd])]
    /\ runs' = runs + 1
    /\ UNCHANGED <<cache, log, now, env, cfgFile, dotEnv>>

Invoke(p) == Run(p, Invocations)

(* The user runs fortunebot in normal mode with caching enabled *)
InvokeCached(p) ==
    Run(p, { f \in Invocations :
               /\ ~f.prefetchWorker /\ ~f.showLog /\ ~f.logRandom /\ ~f.clearCache
               /\ caching(f) })

(* Variant: a failure of os.Remove ends the run with status 1 *)
ClearCacheFatal(p) ==
    /\ NoZombie
    /\ proc[p].pc = "clear"
    /\ \E rmOk \in BOOLEAN :
          /\ cache' = IF rmOk THEN Absent ELSE cache
          /\ proc' = [proc EXCEPT ![p] = IF rmOk THEN LookupOrFetch(@) ELSE Exited(@, 1)]
    /\ UNCHANGED <<log, now, runs, env, cfgFile, dotEnv>>

(* clearCache: os.Remove succeeds, or fails (the file may be missing) *)
ClearCache(p) ==
    /\ NoZombie
    /\ proc[p].pc = "clear"
    /\ \E rmOk \in BOOLEAN :
          cache' = IF rmOk THEN Absent ELSE cache
    /\ proc' = [proc EXCEPT ![p] =
          LookupOrFetch([@ EXCEPT !.cleared = (cache'.state = "absent")])]
    /\ UNCHANGED <<log, now, runs, env, cfgFile, dotEnv>>

(* main, caching enabled: loadCache, then print-and-return on a hit *)
LoadCache(p, t) ==
    /\ NoZombie
    /\ proc[p].pc = "lookup"
    /\ now' = t
    /\ \E readOk \in BOOLEAN :
        LET r == [proc[p] EXCEPT !.nLoad = @ + 1]
            c == loadCache(cache, readOk)
        IN proc' = [proc EXCEPT ![p] =
            IF c.ok THEN OnHit(r, c.c, t)
            ELSE [r EXCEPT !.pc = "fetch", !.msg = Verbose(r, "nocache")]]
    /\ UNCHANGED <<cache, log, runs, env, cfgFile, dotEnv>>

(* generateFortune, called by main and by runPrefetchWorker *)
GenerateFortune(p) ==
    /\ NoZombie
    /\ proc[p].pc = "fetch"
    /\ \E resp \in Responses :
        LET g == generateFortune(proc[p].conf.apiKey, resp)
        IN proc' = [proc EXCEPT ![p] =
                OnFetch([@ EXCEPT !.nGen = @ + 1, !.net = g.net], g)]
    /\ UNCHANGED <<cache, log, now, runs, env, cfgFile, dotEnv>>

(* Variant: the log is opened with O_TRUNC instead of O_APPEND *)
LogFortuneTruncate(p, t) ==
    /\ NoZombie
    /\ proc[p].pc = "log"
    /\ now' = t
    /\ \E wrOk \in BOOLEAN :
        LET r == proc[p]
            lg == logFortune(<<>>, r.fortune, t, wrOk)
        IN /\ log' = lg
           /\ proc' = [proc EXCEPT ![p] =
                AfterLog([r EXCEPT !.wroteLog = (lg # log), !.logFail = ~wrOk])]
    /\ UNCHANGED <<cache, runs, env, cfgFile, dotEnv>>

(* logFortune, then in main the fortune is printed *)
LogFortune(p, t) ==
    /\ NoZombie
    /\ proc[p].pc = "log"
    /\ now' = t
    /\ \E wrOk \in BOOLEAN :
        LET r == proc[p]
            lg == logFortune(log, r.fortune, t, wrOk)
        IN /\ log' = lg
           /\ proc' = [proc EXCEPT ![p] =
                AfterLog([r EXCEPT !.wroteLog = (lg # log), !.logFail = ~wrOk])]
    /\ UNCHANGED <<cache, runs, env, cfgFile, dotEnv>>

(* saveCache up to the truncating open of os.WriteFile *)
SaveCache(p, t) ==
    /\ NoZombie
    /\ proc[p].pc = "save"
    /\ now' = t
    /\ \E mkOk \in BOOLEAN, openOk \in BOOLEAN :
        LET r == proc[p]
            pl == saveCachePayload(r.fortune, t, mkOk)
        IN IF pl.ok /\ openOk
           THEN /\ cache' = Garbage
                /\ proc' = [proc EXCEPT ![p] =
                      [r EXCEPT !.pc = "write", !.payload = pl, !.wroteCache = TRUE,
                                !.prevOk = loadCache(cache, TRUE).ok]]
           ELSE /\ cache' = cache
                /\ proc' = [proc EXCEPT ![p] = AfterStore([r EXCEPT !.saveFail = TRUE])]
    /\ UNCHANGED <<log, runs, env, cfgFile, dotEnv>>

(* saveCache: the write of os.WriteFile *)
WriteCache(p) ==
    /\ NoZombie
    /\ proc[p].pc = "write"
    /\ \E wrOk \in BOOLEAN :
        LET r == proc[p] IN
        /\ cache' = IF wrOk THEN CacheFile(r.payload.c.Fortune, r.payload.c.Timestamp)
                    ELSE cache
        /\ proc' = [proc EXCEPT ![p] =
              AfterStore([r EXCEPT !.saved = wrOk, !.saveFail = ~wrOk, !.prevOk = FALSE])]
    /\ UNCHANGED <<log, now, runs, env, cfgFile, dotEnv>>

(* The command line startPrefetch builds for the child *)
PrefetchArgs(c) ==
    [NoFlags EXCEPT !.prefetchWorker = TRUE, !.prompt = c.prompt, !.model = c.model,
                    !.apiKey = IF c.apiKey # "" THEN c.apiKey ELSE ""]

(* Variant: the parent waits for the child it started *)
StartPrefetchWait(p) ==
    /\ NoZombie
    /\ proc[p].pc = "spawn"
    /\ \/ \E q \in Procs :
            /\ proc[p].child = 0
            /\ FreeSlot(q)
            /\ proc' = [proc EXCEPT
                  ![p] = [@ EXCEPT !.nSpawn = @ + 1, !.child = q],
                  ![q] = Main([Started("child", p, PrefetchArgs(proc[p].conf))
                                 EXCEPT !.after = IF proc[p].hit THEN "hit" ELSE "fetch",
                                        !.environ = proc[p].environ, !.cwd = "exe",
                                        !.pconf = proc[p].conf])]
       \/ /\ proc[p].child = 0 \/ proc[proc[p].child].kind # "child"
          /\ proc' = [proc EXCEPT ![p] = Exited(@, 0)]
    /\ UNCHANGED <<cache, log, now, runs, env, cfgFile, dotEnv>>

(* startPrefetch: os.StartProcess starts the child, or fails; main returns *)
StartPrefetch(p) ==
    /\ NoZombie
    /\ proc[p].pc = "spawn"
    /\ \/ \E q \in Procs :
            /\ FreeSlot(q)
            /\ proc' = [proc EXCEPT
                  ![p] = Exited([@ EXCEPT !.nSpawn = @ + 1, !.child = q], 0),
                  ![q] = Main([Started("child", p, PrefetchArgs(proc[p].conf))
                                 EXCEPT !.after = IF proc[p].hit THEN "hit" ELSE "fetch",
                                        !.environ = proc[p].environ, !.cwd = "exe",
                                        !.pconf = proc[p].conf])]
       \/ proc' = [proc EXCEPT ![p] = Exited(@, 0)]
    /\ UNCHANGED <<cache, log, now, runs, env, cfgFile, dotEnv>>

(* printLog *)
PrintLog(p) ==
    /\ NoZombie
    /\ proc[p].pc = "showlog"
    /\ proc' = [proc EXCEPT ![p] = Exited(@, 0)]
    /\ UNCHANGED <<cache, log, now, runs, env, cfgFile, dotEnv>>

(* The bytes of the log file: logFortune writes "<epoch>\t<fortune>\n" for *)
(* each record; "#" is the decimal epoch, "t" a tab, "n" a newline          *)
RECURSIVE LogBytes(_)
LogBytes(lg) ==
    IF lg = <<>> THEN <<>>
    ELSE <<"#", "t">> \o Head(lg).text \o <<"n">> \o LogBytes(Tail(lg))

(* Index of the first token c in s, 0 if there is none *)
RECURSIVE Index(_, _)
Index(s, c) ==
    IF s = <<>> THEN 0
    ELSE IF Head(s) = c THEN 1
    ELSE LET i == Index(Tail(s), c) IN IF i = 0 THEN 0 ELSE i + 1

(* strings.Split(s, sep) *)
RECURSIVE Split(_, _)
Split(s, sep) ==
    LET i == Index(s, sep)
    IN IF i = 0 THEN <<s>>
       ELSE <<SubSeq(s, 1, i - 1)>> \o Split(SubSeq(s, i + 1, Len(s)), sep)

(* The loop of randomFortuneFromLog over the lines of the file *)
RECURSIVE LineFortunes(_)
LineFortunes(lines) ==
    IF lines = <<>> THEN <<>>
    ELSE LET line == Head(lines)
             i == Index(line, "t")
         IN (IF i = 0 THEN <<>>
             ELSE <<TrimSpace(SubSeq(line, i + 1, Len(line)))>>)
            \o LineFortunes(Tail(lines))

(* The fortunes randomFortuneFromLog draws from *)
randomFortunes(lg) == LineFortunes(Split(LogBytes(lg), "n"))

(* randomFortuneFromLog and the branch of main that calls it; i is the     *)
(* index rand.Intn draws; readOk: os.ReadFile succeeded                    *)
RandomFortuneFromLog(p) ==
    /\ NoZombie
    /\ proc[p].pc = "logrand"
    /\ \E readOk \in BOOLEAN :
        LET fs == randomFortunes(log)
        IN IF ~readOk \/ log = <<>>
           THEN proc' = [proc EXCEPT ![p] = Exited([@ EXCEPT !.logFail = TRUE], 1)]
           ELSE IF fs = <<>>
           THEN proc' = [proc EXCEPT ![p] = Exited(@, 1)]
           ELSE \E i \in 1..Len(fs) :
                  proc' = [proc EXCEPT ![p] = Exited([@ EXCEPT !.out = fs[i]], 0)]
    /\ UNCHANGED <<cache, log, now, runs, env, cfgFile, dotEnv>>

(* The operating system forgets a process that has exited *)
Reap(p) ==
    /\ proc[p].pc = "done"
    /\ proc' = [proc EXCEPT ![p] = IdleProc]
    /\ UNCHANGED <<cache, log, now, runs, env, cfgFile, dotEnv>>

Next ==
    \/ \E p \in Procs : Invoke(p)
    \/ \E p \in Procs : ClearCache(p)
    \/ \E p \in Procs, t \in Clock : LoadCache(p, t)
    \/ \E p \in Procs : GenerateFortune(p)
    \/ \E p \in Procs, t \in Clock : LogFortune(p, t)
    \/ \E p \in Procs, t \in Clock : SaveCache(p, t)
    \/ \E p \in Procs : WriteCache(p)
    \/ \E p \in Procs : StartPrefetch(p)
    \/ \E p \in Procs : PrintLog(p)
    \/ \E p \in Procs : RandomFortuneFromLog(p)
    \/ \E p \in Procs : Reap(p)

Spec == Init /\ [][Next]_vars

(* The steps of process p: one operation of main or runPrefetchWorker *)
ProcStep(p) ==
    \/ ClearCache(p)
    \/ \E t \in Clock : LoadCache(p, t)
    \/ GenerateFortune(p)
    \/ \E t \in Clock : LogFortune(p, t)
    \/ \E t \in Clock : SaveCache(p, t)
    \/ WriteCache(p)
    \/ StartPrefetch(p)
    \/ PrintLog(p)
    \/ RandomFortuneFromLog(p)

(* The operating system runs every process that can take a step and       *)
(* removes every process that has exited.                                  *)
Fairness ==
    \A p \in Procs : WF_vars(ProcStep(p)) /\ WF_vars(Reap(p))

(* The runs that start with a cache file loadCache accepts *)
HitInit == Init /\ loadCache(cache, TRUE).ok

(* Runs in normal mode with caching enabled, and the workers they start *)
CachedNext ==
    \/ \E p \in Procs : InvokeCached(p)
    \/ \E p \in Procs, t \in Clock : LoadCache(p, t)
    \/ \E p \in Procs : GenerateFortune(p)
    \/ \E p \in Procs, t \in Clock : LogFortune(p, t)
    \/ \E p \in Procs, t \in Clock : SaveCache(p, t)
    \/ \E p \in Procs : WriteCache(p)
    \/ \E p \in Procs : StartPrefetch(p)
    \/ \E p \in Procs : Reap(p)

FairSpec == HitInit /\ [][CachedNext]_vars /\ Fairness

(* Configuration inputs: environments with every variable set, with only  *)
(* the alternate variables set, and with a whitespace-only key; config     *)
(* files absent, unparseable, with every field set and with every field    *)
(* empty; fortunebot.env files in no directory, in the working directory   *)
(* and next to the config file, and in the directory of the executable.    *)
ConfigEnvironments ==
    { NoEnv,
      Env("fk", "ok", "fm", "om", "fp"),
      Env("", "ok", "", "om", ""),
      Env(" ", "", "", "", "") }

ConfigFileInputs ==
    { ConfigFile("absent", "", "", ""),
      ConfigFile("garbage", "", "", ""),
      ConfigFile("json", "ck", "cp", "cm"),
      ConfigFile("json", "", "", "") }

DotEnvInputs ==
    { DotEnv("exe", NoEnvFile, NoEnvFile, NoEnvFile),
      DotEnv("work", NoEnvFile,
             EnvFile("file", Unset, Unset, Unset, Unset, Unset),
             EnvFile("file", "dk", Unset, Unset, Unset, Unset)),
      DotEnv("work", EnvFile("file", Unset, Unset, "dm", Unset, Unset),
             NoEnvFile, NoEnvFile) }

(* One run of the program, and the worker it starts, for every             *)
(* configuration input; the cache file holds an entry                      *)
ConfigInit ==
    /\ cache = CacheFile(<<"R", "b">>, 0)
    /\ log = <<>>
    /\ now = 0
    /\ proc = [p \in Procs |-> IdleProc]
    /\ runs = MaxRuns - 1
    /\ env \in ConfigEnvironments
    /\ cfgFile \in ConfigFileInputs
    /\ dotEnv \in DotEnvInputs

ConfigSpec == ConfigInit /\ [][Next]_vars

(* Runs of the tool over a log that earlier runs have written, multi-line  *)
(* answers of the service included                                         *)
LogResponses ==
    { Response(TRUE, <<"a">>), Response(TRUE, <<"a", "s", "n", "b">>),
      Response(TRUE, <<"a", "n", "b", "t", "s", "c">>) }

LogFortunes == { generateFortune("k", resp).fortune : resp \in LogResponses }

LogInputs ==
    LET one == { logFortune(<<>>, f, 0, TRUE) : f \in LogFortunes }
    IN {<<>>} \cup one \cup { logFortune(lg, f, 0, TRUE) : lg \in one, f \in LogFortunes }

LogInit ==
    /\ cache = CacheFile(<<"R", "b">>, 0)
    /\ log \in LogInputs
    /\ now = 0
    /\ proc = [p \in Procs |-> IdleProc]
    /\ runs = MaxRuns - 1
    /\ env = NoEnv
    /\ cfgFile \in ConfigFiles
    /\ dotEnv \in DotEnvs

LogSpec == LogInit /\ [][Next]_vars

----------------------------------------------------------------------------
(* Properties *)

MaxLen == 2

RECURSIVE TextsUpTo(_)
TextsUpTo(n) ==
    IF n = 0 THEN { <<>> }
    ELSE LET shorter == TextsUpTo(n - 1)
         IN shorter \cup { Append(s, c) : s \in shorter, c \in {"s", "E", "R", "a"} }

Texts == TextsUpTo(MaxLen)

(* The text starts, after leading whitespace, with the tag "[fortunebot]" *)
ErrorTagged(s) ==
    \E i \in 1..Len(s) : s[i] = "E" /\ \A j \in 1..(i - 1) : s[j] = "s"

Normal(r) == ~r.flags.prefetchWorker /\ ~r.flags.showLog /\ ~r.flags.logRandom

CachingOn(r) == ~r.flags.noCache /\ r.flags.cacheTTL > 0

Rank(pc) ==
    CASE pc = "clear" -> 1
      [] pc = "lookup" -> 2
      [] pc = "fetch" -> 3
      [] pc = "log" -> 4
      [] pc = "save" -> 5
      [] pc = "write" -> 6
      [] pc = "spawn" -> 7
      [] pc = "showlog" -> 1
      [] pc = "logrand" -> 1
      [] pc = "done" -> 8
      [] OTHER -> 9

(* C1: in normal mode with caching enabled, once loadCache has returned an *)
(* entry, fresh or stale, the run prints the fortune the cache file held,  *)
(* never calls generateFortune, writes neither the cache nor the log, goes *)
(* on to startPrefetch or returns, and exits 0.                            *)
C1_HitServesCache ==
    [][\A p \in Procs :
        LET r == proc[p]
            r2 == proc'[p]
        IN r2.hit =>
            /\ Normal(r2) /\ CachingOn(r2)
            /\ r2.nGen = 0 /\ ~r2.wroteLog /\ ~r2.wroteCache /\ ~r2.saved
            /\ r2.pc \in {"spawn", "done"}
            /\ r2.pc = "done" => r2.exit = 0
            /\ IF r.hit
               THEN r2.out = r.out /\ (r2 # r => cache' = cache /\ log' = log)
               ELSE /\ cache.state = "json"
                    /\ r2.out = cache.rec.Fortune
                    /\ cache' = cache /\ log' = log]_vars

C1_StaleHitServed ==
    \E p \in Procs :
        /\ proc[p].pc = "done" /\ proc[p].hit /\ proc[p].msg = "stale"
        /\ proc[p].exit = 0 /\ proc[p].out = <<"R", "b">> /\ proc[p].nGen = 0

Clean ==
    /\ cache.state = "json" => ~ErrorTagged(cache.rec.Fortune)
    /\ \A i \in 1..Len(log) : ~ErrorTagged(log[i].text)

(* C3: no step of any process puts error-tagged text into a cache file and *)
(* log that held none; and whatever the files hold, logFortune returns the *)
(* log as it was and saveCache returns before writing when the text is     *)
(* error-tagged.                                                           *)
C3_NoErrorTextStored ==
    /\ [][Clean => Clean']_vars
    /\ [](\A f \in Texts : ErrorTagged(f) =>
            \A ok \in BOOLEAN :
                /\ logFortune(log, f, now, ok) = log
                /\ ~saveCachePayload(f, now, ok).ok)

C3_TaggedAnswerStored ==
    /\ Clean
    /\ cache = CacheFile(<<"R", "E", "a">>, now)
    /\ Len(log) > 0 /\ log[Len(log)].text = <<"R", "E", "a">>

(* C4 as stated: on the miss path, when generateFortune returns f, the run *)
(* prints f, the log gains a record with f, the cache file is written with *)
(* f, and the exit code is 0.                                              *)
C4_Original ==
    \A p \in Procs :
        LET r == proc[p] IN
        (r.pc = "done" /\ Normal(r) /\ CachingOn(r) /\ ~r.hit /\ r.fetched) =>
            /\ r.out = r.fortune /\ r.exit = 0
            /\ r.wroteLog /\ r.saved

(* C4 amended: on the miss path, when generateFortune returns f, the run   *)
(* prints f and exits 0; if the log can be written, logFortune appends     *)
(* exactly the record (clock, f) and nothing else; if the cache directory  *)
(* and file can be written, saveCache writes f with the second its clock   *)
(* read, and the file holds exactly that when the write completes.         *)
C4_MissFetchStores ==
    [][\A p \in Procs :
        LET r == proc[p]
            r2 == proc'[p]
        IN (Normal(r) /\ CachingOn(r) /\ ~r.hit /\ r.fetched) =>
            /\ (r.pc = "log" /\ r2.pc # "log") =>
                  /\ r2.pc = "save" /\ r2.out = r.fortune
                  /\ log' = IF r2.logFail THEN log
                            ELSE Append(log, [ts |-> now', text |-> r.fortune])
                  /\ r2.wroteLog = ~r2.logFail
            /\ (r.pc = "save" /\ r2.pc # "save") =>
                  /\ r2.saveFail \/ r2.payload = Hit(fortuneCache(r.fortune, now'))
                  /\ r2.saveFail => cache' = cache
            /\ (r.pc = "write" /\ r2.pc # "write") =>
                  /\ r2.saveFail \/ cache' = CacheFile(r.fortune, r.payload.c.Timestamp)
                  /\ r2.saved = ~r2.saveFail
            /\ (r.pc # "done" /\ r2.pc = "done") =>
                  /\ r2.exit = 0 /\ r2.out = r.fortune
                  /\ r2.nGen = 1
                  /\ ~r2.logFail => r2.wroteLog
                  /\ ~r2.saveFail => r2.saved]_vars

C4_MissFetchStored ==
    \E p \in Procs :
        LET r == proc[p] IN
        /\ r.pc = "done" /\ Normal(r) /\ CachingOn(r) /\ ~r.hit /\ r.fetched
        /\ r.nLoad = 1 /\ r.exit = 0 /\ r.out = r.fortune
        /\ now = 1
        /\ cache = CacheFile(r.fortune, 1)
        /\ Len(log) = 1 /\ log[1].text = r.fortune

(* C5: when the synchronous fetch of a foreground run fails, that step     *)
(* ends the run with status 1; it changes neither the cache file nor the   *)
(* log nor any other process, and the run has written nothing and spawned  *)
(* nothing.                                                                *)
C5_FetchFailureExits ==
    [][\A p \in Procs :
        LET r == proc[p]
            r2 == proc'[p]
        IN (r.pc = "fetch" /\ ~r.flags.prefetchWorker /\ r2.pc # "fetch" /\ ~r2.fetched) =>
            /\ r2.pc = "done" /\ r2.exit = 1
            /\ cache' = cache /\ log' = log
            /\ ~r2.wroteLog /\ ~r2.wroteCache /\ ~r2.saved
            /\ r2.nSpawn = 0 /\ r2.out = NoText
            /\ \A q \in Procs \ {p} : proc'[q] = proc[q]]_vars

C5_MissFetchFailed ==
    \E p \in Procs :
        LET r == proc[p] IN
        /\ r.pc = "done" /\ Normal(r) /\ CachingOn(r) /\ r.nLoad = 1
        /\ r.nGen = 1 /\ ~r.fetched /\ r.exit = 1
        /\ r.conf.apiKey # ""

(* C6 as stated: a worker calls generateFortune once; on success it has    *)
(* appended to the log and written the cache and exits 0; on failure it    *)
(* exits 1 and has written nothing.                                        *)
C6_Original ==
    \A p \in Procs :
        LET r == proc[p] IN
        (r.pc = "done" /\ r.flags.prefetchWorker) =>
            /\ r.nGen = 1
            /\ r.fetched => (r.exit = 0 /\ r.wroteLog /\ r.saved)
            /\ ~r.fetched => (r.exit = 1 /\ ~r.wroteLog /\ ~r.wroteCache)

(* C6 amended: a worker calls generateFortune exactly once and never       *)
(* loadCache; on success it exits 0, having appended the record (clock, f) *)
(* if the log can be written and overwritten the cache with f if the cache *)
(* can be written; on failure it exits 1 in that very step, which changes  *)
(* neither file.                                                           *)
C6_WorkerRun ==
    /\ [](\A p \in Procs :
            LET r == proc[p] IN
            r.flags.prefetchWorker =>
                /\ r.nGen <= 1 /\ r.nLoad = 0
                /\ r.pc = "done" =>
                    /\ r.nGen = 1
                    /\ r.fetched =>
                          /\ r.exit = 0
                          /\ ~r.logFail => r.wroteLog
                          /\ ~r.saveFail => r.saved
                    /\ ~r.fetched =>
                          r.exit = 1 /\ ~r.wroteLog /\ ~r.wroteCache /\ ~r.saved)
    /\ [][\A p \in Procs :
            LET r == proc[p]
                r2 == proc'[p]
            IN r.flags.prefetchWorker =>
                /\ (r.pc = "fetch" /\ r2.pc # "fetch" /\ ~r2.fetched) =>
                      r2.pc = "done" /\ cache' = cache /\ log' = log
                /\ (r.pc = "log" /\ r2.pc # "log" /\ ~r2.logFail) =>
                      log' = Append(log, [ts |-> now', text |-> r.fortune])
                /\ (r.pc = "write" /\ r2.pc # "write" /\ ~r2.saveFail) =>
                      cache' = CacheFile(r.fortune, r.payload.c.Timestamp)]_vars

C6_WorkerStored ==
    \E p \in Procs :
        LET r == proc[p] IN
        /\ r.pc = "done" /\ r.kind = "child" /\ r.flags.prefetchWorker
        /\ r.fetched /\ r.exit = 0 /\ r.wroteLog /\ r.saved
        /\ cache.state = "json" /\ cache.rec.Fortune = r.fortune

(* C7: a run starts at most one child; a run in worker mode (whatever its  *)
(* other flags) or with --no-prefetch starts none and never reaches        *)
(* startPrefetch; every child is in worker mode; and a process appears     *)
(* only when the user starts it or a normal-mode run at startPrefetch does.*)
C7_AtMostOneWorker ==
    /\ [](\A p \in Procs :
            LET r == proc[p] IN
            /\ r.nSpawn <= 1
            /\ (r.flags.prefetchWorker \/ r.flags.noPrefetch) =>
                  (r.nSpawn = 0 /\ r.pc # "spawn")
            /\ r.kind = "child" => r.flags.prefetchWorker)
    /\ [][\A q \in Procs :
            (proc[q].pc = "idle" /\ proc'[q].kind = "child") =>
                /\ \E p \in Procs \ {q} :
                      /\ proc[p].pc = "spawn" /\ Normal(proc[p])
                      /\ ~proc[p].flags.noPrefetch
                      /\ proc'[p].nSpawn = proc[p].nSpawn + 1
                      /\ proc'[q].parent = p
                /\ \A o \in Procs \ {q} : proc[o].pc = "idle" => proc'[o].pc = "idle"]_vars

C7_WorkerModeNoSpawn ==
    \E p \in Procs :
        LET r == proc[p] IN
        /\ r.pc = "done" /\ r.kind = "user" /\ r.flags.prefetchWorker
        /\ r.flags.showLog /\ r.flags.logRandom /\ ~r.flags.noPrefetch
        /\ r.fetched /\ r.saved /\ r.exit = 0 /\ r.nSpawn = 0

(* C8: a foreground run that has not exited can always take its next step, *)
(* whatever its child is doing; each of its steps takes it nearer to its   *)
(* exit; and the step that starts the child is the one that ends the run.  *)
C8_ParentNeverWaits ==
    /\ [](\A p \in Procs :
            (NoZombie /\ proc[p].kind = "user" /\ Live(p)) => ENABLED ProcStep(p))
    /\ [][\A p \in Procs :
            (proc[p].kind = "user" /\ Live(p) /\ proc'[p] # proc[p]) =>
                /\ Rank(proc'[p].pc) > Rank(proc[p].pc)
                /\ proc[p].pc = "spawn" => proc'[p].pc = "done"]_vars

C8_ParentGoneWorkerPending ==
    \E p \in Procs, q \in Procs :
        /\ proc[p].pc = "done" /\ proc[p].kind = "user" /\ proc[p].exit = 0
        /\ proc[p].child = q /\ proc[p].nSpawn = 1
        /\ proc[q].kind = "child" /\ proc[q].parent = p
        /\ proc[q].pc = "fetch" /\ ~proc[q].wroteCache

(* C9: with --no-cache or cache-ttl 0 a normal run never calls loadCache,  *)
(* and the fortune it prints is the one its own call of generateFortune    *)
(* returned, whatever the cache file holds.                                *)
C9_NoCacheNeverReads ==
    \A p \in Procs :
        LET r == proc[p] IN
        (Normal(r) /\ (r.flags.noCache \/ r.flags.cacheTTL = 0)) =>
            /\ r.nLoad = 0 /\ r.pc # "lookup" /\ ~r.hit
            /\ r.out # NoText => (r.fetched /\ r.nGen = 1 /\ r.out = r.fortune)

C9_PrintsFetchedNotCached ==
    \E p \in Procs :
        LET r == proc[p] IN
        /\ r.pc = "done" /\ Normal(r) /\ r.flags.noCache /\ r.exit = 0
        /\ r.out = <<"R", "a">>
        /\ cache = CacheFile(<<"R", "b">>, 0)

(* The worker q that a cache-hit run started *)
RefreshWorker(q) ==
    proc[q].kind = "child" /\ proc[q].after = "hit" /\ proc[q].flags.prefetchWorker

(* C10: under fair scheduling, the worker started by a cache-hit run       *)
(* (fresh or stale) exits, and if its fetch and its cache write succeeded  *)
(* the cache file then holds the fortune it fetched with the second its    *)
(* saveCache read from the clock; the cache file changes only in a step of *)
(* clearCache or saveCache, and a later run whose loadCache returns an     *)
(* entry prints what the cache file holds.                                 *)
C10_WorkerRefreshesCache ==
    /\ \A q \in Procs :
          (RefreshWorker(q) /\ Live(q)) ~>
              /\ RefreshWorker(q) /\ proc[q].pc = "done"
              /\ (proc[q].fetched /\ ~proc[q].saveFail) =>
                    /\ proc[q].exit = 0
                    /\ cache = CacheFile(proc[q].fortune, proc[q].payload.c.Timestamp)
    /\ [][\A q \in Procs :
            (RefreshWorker(q) /\ proc[q].pc = "save" /\ proc'[q].pc = "write") =>
                proc'[q].payload = Hit(fortuneCache(proc[q].fortune, now'))]_vars
    /\ [][cache' # cache =>
            \E p \in Procs : proc[p].pc \in {"clear", "save", "write"} /\ proc'[p] # proc[p]]_vars
    /\ [][\A p \in Procs :
            (proc[p].pc = "lookup" /\ proc'[p].hit) =>
                (cache' = cache /\ proc'[p].out = cache.rec.Fortune)]_vars

C10_RefreshedAfterHit ==
    \E q \in Procs :
        /\ RefreshWorker(q) /\ proc[q].pc = "done" /\ proc[q].exit = 0
        /\ proc[q].fetched /\ proc[q].saved
        /\ proc[q].fortune = <<"R", "a">>
        /\ cache = CacheFile(<<"R", "a">>, 1)
        /\ Len(log) = 1

(* C11 as stated: the prompt, model and API key with which a spawned       *)
(* worker calls generateFortune are the values its parent resolved, for    *)
(* every combination of flags, environment, fortunebot.env files and       *)
(* config file.                                                            *)
C11_Original ==
    \A q \in Procs :
        (proc[q].kind = "child" /\ proc[q].nGen > 0) => proc[q].conf = proc[q].pconf

(* C12: a normal-mode or worker run that has exited has status 0 exactly   *)
(* when its cache lookup hit or its fetch succeeded, and status 1 exactly  *)
(* when its one call of generateFortune failed, whatever became of         *)
(* os.Remove, os.MkdirAll, os.WriteFile, the log append and                *)
(* os.StartProcess.                                                        *)
C12_ExitOnlyFromFetch ==
    \A p \in Procs :
        LET r == proc[p] IN
        (r.pc = "done" /\ (Normal(r) \/ r.flags.prefetchWorker)) =>
            /\ r.exit \in {0, 1}
            /\ r.exit = 0 <=> (r.hit \/ r.fetched)
            /\ r.exit = 1 <=> (r.nGen = 1 /\ ~r.fetched)

(* A run whose os.Remove, cache read, log append, os.MkdirAll (or open)    *)
(* and os.StartProcess all failed, and whose fetch succeeded               *)
C12_EveryStoreFailed ==
    \E p \in Procs :
        LET r == proc[p] IN
        /\ r.pc = "done" /\ Normal(r) /\ CachingOn(r)
        /\ r.flags.clearCache /\ ~r.flags.noPrefetch
        /\ r.fetched /\ r.logFail /\ r.saveFail /\ ~r.wroteCache /\ r.nSpawn = 0
        /\ r.exit = 0
        /\ cache = CacheFile(<<"R", "b">>, 0) /\ log = <<>> /\ runs = 1

(* Process p returns from logFortune in this step *)
LogReturn(p) == proc[p].pc = "log" /\ proc'[p].pc # "log"

(* C13 as stated: no step modifies, reorders or removes a record of the    *)
(* log; the step in which a run that fetched successfully returns from     *)
(* logFortune adds exactly one record, and no other step adds any.         *)
C13_Original ==
    [][/\ Len(log') >= Len(log) /\ SubSeq(log', 1, Len(log)) = log
       /\ IF \E p \in Procs : LogReturn(p)
          THEN Len(log') = Len(log) + 1
          ELSE log' = log]_vars

(* C13 amended: no step modifies, reorders or removes a record of the log  *)
(* in any mode; the step in which a run (foreground or worker) that        *)
(* fetched successfully returns from logFortune appends exactly the one    *)
(* record (clock, fortune) if the log file can be opened and written and   *)
(* nothing if it cannot; no other step changes the log.                    *)
C13_LogAppendOnly ==
    [][/\ Len(log') >= Len(log) /\ SubSeq(log', 1, Len(log)) = log
       /\ \A p \in Procs : LogReturn(p) =>
             /\ proc[p].fetched /\ proc[p].nGen = 1 /\ ~proc[p].wroteLog
             /\ log' = IF proc'[p].logFail THEN log
                       ELSE Append(log, [ts |-> now', text |-> proc[p].fortune])
             /\ proc'[p].wroteLog = ~proc'[p].logFail
       /\ (\A p \in Procs : ~LogReturn(p)) => log' = log]_vars

C13_TwoRunsLogged ==
    /\ Len(log) = 2
    /\ log[1].text = <<"R", "a">> /\ log[2].text = <<"R", "E", "a">>
    /\ \E p \in Procs :
          /\ proc[p].pc = "done" /\ proc[p].kind = "child" /\ proc[p].wroteLog
          /\ proc[p].fortune = log[2].text
    /\ cache.state = "absent"

(* A run in show-log or log-random mode *)
LogMode(r) == ~r.flags.prefetchWorker /\ (r.flags.showLog \/ r.flags.logRandom)

(* C14: every step of a run in show-log or log-random mode, its start      *)
(* included, leaves the cache file and the log unchanged; such a run never *)
(* calls the Generation Client, never reads or writes the cache, never     *)
(* appends to the log and spawns no worker, whatever other flags are       *)
(* given; a show-log run exits 0.                                          *)
C14_LogModesTouchNothing ==
    [][\A p \in Procs : LET r == proc'[p] IN
         (LogMode(r) /\ r # proc[p]) =>
            /\ cache' = cache /\ log' = log
            /\ r.pc \in {"showlog", "logrand", "done"}
            /\ r.nGen = 0 /\ r.nLoad = 0 /\ r.nSpawn = 0 /\ r.child = proc[p].child
            /\ ~r.wroteLog /\ ~r.wroteCache /\ ~r.fetched
            /\ (r.flags.showLog /\ r.pc = "done") => r.exit = 0]_vars

C14_ShowLogWithClearCache ==
    /\ cache.state = "json"
    /\ Len(log) = 1
    /\ \E p \in Procs : LET r == proc[p] IN
          /\ r.pc = "done" /\ r.exit = 0
          /\ ~r.flags.prefetchWorker /\ r.flags.showLog /\ r.flags.logRandom
          /\ r.flags.clearCache /\ r.flags.noCache

(* C15 as stated: when a log-random run exits, its status is 1 if and only *)
(* if the log could not be read or holds no record, and otherwise it is 0  *)
(* and the text printed is the text field of a record of the log.          *)
C15_Original ==
    [][\A p \in Procs :
         (proc[p].pc = "logrand" /\ proc'[p].pc = "done") =>
            LET r == proc'[p] IN
            /\ r.exit \in {0, 1}
            /\ r.exit = 1 <=> (r.logFail \/ log = <<>>)
            /\ r.exit = 0 => \E i \in 1..Len(log) : r.out = log[i].text]_vars

(* What the config file holds for a setting: nothing if it cannot be read  *)
(* or parsed                                                               *)
FileValue(v) == IF cfgFile.state = "json" THEN v ELSE ""

(* The sources of each setting for run r, highest precedence first, each   *)
(* with the provenance main reports for it                                 *)
KeySources(r) ==
    << <<r.flags.apiKey, "--api-key flag">>,
       <<r.environ.FORTUNEBOT_API_KEY, "env FORTUNEBOT_API_KEY">>,
       <<r.environ.OPENAI_API_KEY, "env OPENAI_API_KEY">>,
       <<FileValue(cfgFile.c.APIKey), "~/.config/fortunebot/config.json">> >>

ModelSources(r) ==
    << <<r.flags.model, "--model flag">>,
       <<r.environ.FORTUNEBOT_MODEL, "env FORTUNEBOT_MODEL">>,
       <<r.environ.OPENAI_MODEL, "env OPENAI_MODEL">>,
       <<FileValue(cfgFile.c.Model), "~/.config/fortunebot/config.json">> >>

PromptSources(r) ==
    << <<r.flags.prompt, "--prompt flag">>,
       <<r.environ.FORTUNEBOT_PROMPT, "env FORTUNEBOT_PROMPT">>,
       <<FileValue(cfgFile.c.DefaultPrompt), "~/.config/fortunebot/config.json">> >>

(* Every source is left out or holds a non-blank value, and one holds one *)
Populated(srcs) ==
    /\ \A i \in 1..Len(srcs) : srcs[i][1] = "" \/ ~Blank(srcs[i][1])
    /\ \E i \in 1..Len(srcs) : srcs[i][1] # ""

(* The value and the provenance resolved are those of source i, and no     *)
(* source before i holds a value                                           *)
FromHighest(srcs, value, source) ==
    \E i \in 1..Len(srcs) :
        /\ srcs[i][1] # "" /\ \A j \in 1..(i - 1) : srcs[j][1] = ""
        /\ value = srcs[i][1]
        /\ source \in {srcs[i][2], ""}

(* C16: for prompt, API key and model, when every source (flag, primary    *)
(* environment variable, alternate environment variable, config file) is   *)
(* left out or holds a non-blank value and at least one holds one, the     *)
(* value a normal run or a worker resolves, and the provenance a normal    *)
(* run reports, are those of the first populated source in the order flag, *)
(* primary env, alternate env, config file.                                *)
C16_HighestSourceWins ==
    \A p \in Procs : LET r == proc[p] IN
        (r.pc # "idle" /\ ~LogMode(r)) =>
           /\ Populated(KeySources(r)) =>
                 FromHighest(KeySources(r), r.conf.apiKey, r.src.apiKey)
           /\ Populated(ModelSources(r)) =>
                 FromHighest(ModelSources(r), r.conf.model, r.src.model)
           /\ Populated(PromptSources(r)) =>
                 FromHighest(PromptSources(r), r.conf.prompt, r.src.prompt)
           /\ Normal(r) => r.src.apiKey # "" /\ r.src.model # "" /\ r.src.prompt # ""

C16_AlternateEnvOverConfig ==
    \E p \in Procs : LET r == proc[p] IN
        /\ r.pc = "done" /\ Normal(r) /\ r.flags.apiKey = ""
        /\ r.environ = Env("", "ok", "", "om", "")
        /\ cfgFile = ConfigFile("json", "ck", "cp", "cm")
        /\ r.conf = [prompt |-> "cp", apiKey |-> "ok", model |-> "om"]
        /\ r.src = [prompt |-> "~/.config/fortunebot/config.json",
                    apiKey |-> "env OPENAI_API_KEY", model |-> "env OPENAI_MODEL"]

(* C17 as stated: a run or worker that called generateFortune with a blank *)
(* resolved API key (empty or whitespace only) sent no request to the      *)
(* service, fetched nothing, and has exited with status 1 without          *)
(* appending to the log or writing the cache.                              *)
C17_Original ==
    \A p \in Procs : LET r == proc[p] IN
        (r.nGen > 0 /\ Blank(r.conf.apiKey)) =>
           /\ ~r.net /\ ~r.fetched
           /\ r.pc = "done" /\ r.exit = 1
           /\ ~r.wroteLog /\ ~r.wroteCache

(* C18: in the step in which a run returns from loadCache, it has a hit    *)
(* only if the cache file parses as JSON and its text is not error-tagged, *)
(* and then it prints that text; in every other case (missing file, read   *)
(* failure, malformed content, error-tagged text) it prints nothing, goes  *)
(* on to the synchronous fetch, and differs from the run before the call   *)
(* in nothing but that and the one verbose line, whatever the cause.       *)
C18_MissIsUniform ==
    [][\A p \in Procs :
         (proc[p].pc = "lookup" /\ proc'[p].pc # "lookup") =>
            LET r == proc[p]
                r2 == proc'[p]
                valid == cache.state = "json" /\ ~ErrorTagged(cache.rec.Fortune)
            IN /\ r2.hit => valid /\ r2.out = cache.rec.Fortune
               /\ ~valid => ~r2.hit
               /\ ~r2.hit =>
                     r2 = [r EXCEPT !.pc = "fetch", !.nLoad = 1,
                                    !.msg = IF r.flags.verbose THEN "nocache" ELSE "none"]
               /\ ~ErrorTagged(r2.out)]_vars

C18_ErrorTaggedCacheMissed ==
    /\ cache = CacheFile(<<"s", "E", "b">>, 0)
    /\ \E p \in Procs : LET r == proc[p] IN
          /\ r.pc = "fetch" /\ r.nLoad = 1 /\ ~r.hit /\ r.out = NoText
          /\ r.flags.verbose /\ r.msg = "nocache"

(* C19 as stated: while a process is inside saveCache, overwriting a cache *)
(* file that held a valid entry, and another process is about to call      *)
(* loadCache, the file holds a complete record that loadCache accepts: the *)
(* load cannot report a miss.                                              *)
C19_Original ==
    \A p, q \in Procs :
        (p # q /\ proc[p].pc = "lookup" /\ proc[q].pc = "write" /\ proc[q].prevOk) =>
            /\ cache.state = "json"
            /\ loadCache(cache, TRUE).ok

(* C20 as stated: when a normal run finds the model (or the prompt) in no  *)
(* flag and no environment variable, and the config file is absent,        *)
(* unparseable or leaves the field empty, the value resolved is the        *)
(* built-in default and the provenance reported is "built-in default".     *)
C20_Original ==
    \A p \in Procs : LET r == proc[p] IN
        (r.pc # "idle" /\ Normal(r)) =>
           /\ (\A i \in 1..Len(ModelSources(r)) : ModelSources(r)[i][1] = "") =>
                 r.conf.model = defaultModel /\ r.src.model = "built-in default"
           /\ (\A i \in 1..Len(PromptSources(r)) : PromptSources(r)[i][1] = "") =>
                 r.conf.prompt = defaultPrompt /\ r.src.prompt = "built-in default"

(* C21: the log only grows, and every step that puts a record into the     *)
(* cache file is the write of saveCache by a process that fetched the      *)
(* fortune of that record; unless the log append of that process failed,   *)
(* the log then holds a record with the same fortune text and a timestamp  *)
(* not later than that of the cache record.  Under any interleaving of     *)
(* foreground and worker processes, a cache record written by the program  *)
(* therefore has its record in the log.                                    *)
C21_LoggedBeforeCached ==
    [][/\ Len(log') >= Len(log) /\ SubSeq(log', 1, Len(log)) = log
       /\ (cache' # cache /\ cache'.state = "json") =>
             \E p \in Procs :
                /\ proc[p].pc = "write" /\ proc'[p].saved /\ proc[p].fetched
                /\ cache'.rec = proc[p].payload.c
                /\ cache'.rec.Fortune = proc[p].fortune
                /\ ~proc[p].logFail =>
                      \E i \in 1..Len(log') :
                         /\ log'[i].text = cache'.rec.Fortune
                         /\ log'[i].ts <= cache'.rec.Timestamp]_vars

C21_CacheYoungerThanLog ==
    /\ cache = CacheFile(<<"R", "a">>, 1)
    /\ log = <<[ts |-> 0, text |-> <<"R", "a">>]>>
    /\ \E p \in Procs :
          /\ proc[p].pc = "done" /\ proc[p].kind = "child"
          /\ proc[p].saved /\ ~proc[p].logFail /\ proc[p].wroteLog

(* C22 as stated: a normal run with --clear-cache and caching enabled      *)
(* whose clearCache left no cache file, and that has returned from         *)
(* loadCache, had a miss and printed no cached fortune, and when it has    *)
(* exited it has called generateFortune exactly once, whatever a worker of *)
(* an earlier run does meanwhile.                                          *)
C22_Original ==
    \A p \in Procs : LET r == proc[p] IN
        (Normal(r) /\ r.flags.clearCache /\ CachingOn(r) /\ r.cleared /\ r.nLoad > 0) =>
           /\ ~r.hit
           /\ r.pc = "done" => r.nGen = 1

====
